---- MODULE Spec2Model ----
(***************************************************************************)
(* Sistema_Facturacion (app.py): in-memory invoice ledger behind a Flask   *)
(* API.  State machine of the module-level store (facturas, contadores)    *)
(* and its request handlers.                                               *)
(*                                                                         *)
(* Representation.  Money is kept exact: a unit price is an integer number *)
(* of thousandths (1.00 = 1000), a raw subtotal is in thousandths, the raw *)
(* tax and total are in 1/100000 (the 0.21 factor is 21/100), and every    *)
(* stored, round(x, 2) field is an integer number of cents.  Time is an    *)
(* integer number of days.  A value read with dict.get is <<>> for None    *)
(* and <<v>> for a present value v.  Text built by str()/zfill()/          *)
(* isoformat() is a sequence of one-character strings.                     *)
(***************************************************************************)
EXTENDS Integers, Sequences, FiniteSets, TLC

VARIABLES
    facturas,     \* app.py:13  the ledger, a sequence of invoice records
    contadores,   \* app.py:14  next sequence number of each series
    now,          \* datetime.now(), in days
    req,          \* the request handled last
    resp,         \* the response to it
    creadas,      \* history: what each 201 response reported, in order
    pc,           \* concurrent execution: each worker's position in crear_factura
    loc,          \* concurrent execution: each worker's local variables
    interleaved   \* history: some handler step ran while another creation was in progress

vars == <<facturas, contadores, now, req, resp, creadas, pc, loc, interleaved>>

-----------------------------------------------------------------------------
(* Bounds of the model *)

MaxFacturas == 2

MaxNow == 20

\* the clock advances by one of these numbers of days
TickSteps == {5, 10}

Workers == {1, 2}

-----------------------------------------------------------------------------
(* Python values *)

None == <<>>

Some(v) == <<v>>

\* app.py:15
puntos_venta == <<1, 2, 3, 4, 5>>

Elems(s) == {s[i] : i \in 1..Len(s)}

Digit(d) == <<"0", "1", "2", "3", "4", "5", "6", "7", "8", "9">>[d + 1]

RECURSIVE StrNat(_)
StrNat(n) == IF n < 10 THEN <<Digit(n)>> ELSE StrNat(n \div 10) \o <<Digit(n % 10)>>

\* str(n) of a Python int
Str(n) == IF n < 0 THEN <<"-">> \o StrNat(-n) ELSE StrNat(n)

RECURSIVE Zeros(_)
Zeros(k) == IF k <= 0 THEN <<>> ELSE <<"0">> \o Zeros(k - 1)

\* s.zfill(width): pads on the left with "0", after a leading sign
zfill(s, width) ==
    IF Len(s) >= width THEN s
    ELSE IF Len(s) > 0 /\ s[1] \in {"-", "+"}
         THEN <<s[1]>> \o Zeros(width - Len(s)) \o Tail(s)
         ELSE Zeros(width - Len(s)) \o s

DigitVal(c) == CHOOSE d \in 0..9 : Digit(d) = c

RECURSIVE ParseNat(_)
ParseNat(s) == IF s = <<>> THEN 0
               ELSE 10 * ParseNat(SubSeq(s, 1, Len(s) - 1)) + DigitVal(s[Len(s)])

\* round(x, 2) of the exact value n/d cents: nearest cent, a tie to the even cent
\* (no amount computed from the item lists below falls on a tie, where the binary
\* value of a float decides)
Round2(n, d) ==
    LET q == n \div d
        r == n % d
    IN  IF 2 * r < d THEN q
        ELSE IF 2 * r > d THEN q + 1
        ELSE IF q % 2 = 0 THEN q ELSE q + 1

RECURSIVE SumSeq(_)
SumSeq(s) == IF s = <<>> THEN 0 ELSE s[1] + SumSeq(Tail(s))

\* datetime.isoformat() and datetime.fromisoformat() of a day count
isoformat(t) == Str(t)

fromisoformat(s) == ParseNat(s)

\* timedelta(days=10), app.py:88
DiasVencimientoCAE == 10

-----------------------------------------------------------------------------
(* Requests *)

Item(c, p) == [cantidad |-> c, precioUnitario |-> p]

\* the item lists of the requests (prices in thousandths): a whole-cent list
\* (2 x 100.00), a sub-cent one (1 x 0.014), a negative one (1 x -1.00), a two-item one
\* (1 x 1.00, 3 x 0.10), and a list whose second dict lacks precioUnitario
ItemsEnteros == Some(<<Item(Some(2), Some(100000))>>)

ItemsSinClave == Some(<<Item(Some(1), Some(1000)), Item(Some(1), None)>>)

ItemsValidos ==
    { ItemsEnteros,
      Some(<<Item(Some(1), Some(14))>>),
      Some(<<Item(Some(1), Some(-1000))>>),
      Some(<<Item(Some(1), Some(1000)), Item(Some(3), Some(100))>>) }

Tipos == {None, Some("A"), Some("B"), Some("C")}

Puntos == {None, Some(0), Some(1), Some(5), Some(6)}

Clientes == {Some("cliente")}

\* the parsed JSON object of a creation request, each field as data.get returns it
Bodies(tipos, puntos, items) ==
    [tipo : tipos, puntoVenta : puntos, cliente : Clientes, items : items]

\* what request.get_json() yields: None (no JSON body) or the parsed object.
\* Every series and point of sale, with no items, an empty list, a good and a bad list
RequestData ==
    {None} \cup {Some(b) : b \in Bodies(Tipos, Puntos,
                                        {None, Some(<<>>), ItemsEnteros, ItemsSinClave})}

\* requests of both series at one point of sale, with every item list
DatosTotales ==
    {Some(b) : b \in Bodies({Some("A"), Some("B")}, {Some(1)},
                            ItemsValidos \cup {Some(<<>>)})}

\* requests that differ in the series only
DatosSimples ==
    {Some(b) : b \in Bodies({Some("A"), Some("B"), Some("C")}, {Some(1)}, {ItemsEnteros})}

\* the string random.randint(10000000000000, 99999999999999) is turned into
CaeValues == {"10000000000000", "99999999999999"}

UnCae == {"10000000000000"}

\* codes a client may ask to verify
CaeQueries == CaeValues \cup {"00000000000000"}

-----------------------------------------------------------------------------
(* calcular_totales, app.py:29-53 *)

\* the generator of line 32 raises KeyError on a dict without one of the keys
TotalesRaises(items) ==
    \E i \in 1..Len(items) : items[i].cantidad = None \/ items[i].precioUnitario = None

\* line 32, in thousandths
Subtotal(items) ==
    SumSeq([i \in 1..Len(items) |-> items[i].cantidad[1] * items[i].precioUnitario[1]])

\* the three stored fields, in cents
calcular_totales(items, tipo) ==
    LET importe_iva == 21                  \* 0.21, per hundred
        subtotal == Subtotal(items)        \* 1/1000
    IN  IF tipo = "A"
        THEN LET iva == subtotal * importe_iva            \* 1/100000
                 total == subtotal * 100 + iva            \* 1/100000
             IN  [subtotal |-> Round2(subtotal, 10),
                  iva |-> Round2(iva, 1000),
                  total |-> Round2(total, 1000)]
        ELSE LET total == subtotal * 100 + subtotal * importe_iva
                 subtotal_neto == total
                 iva == total - subtotal_neto
             IN  [subtotal |-> Round2(subtotal_neto, 1000),
                  iva |-> Round2(iva, 1000),
                  total |-> Round2(total, 1000)]

-----------------------------------------------------------------------------
(* Requests and responses *)

Peticion(op, data, cae, t) == [op |-> op, data |-> data, cae |-> cae, t |-> t]

SinPeticion == Peticion("", None, "", 0)

Respuesta(status, mensaje, factura, valido, stats) ==
    [status |-> status, mensaje |-> mensaje, factura |-> factura,
     valido |-> valido, stats |-> stats]

SinRespuesta == Respuesta(0, "", None, None, None)

ErrTipo == "Tipo de factura invalido. Debe ser A o B"

ErrPuntoVenta == "Punto de venta invalido"

ErrItems == "Debe incluir al menos un item"

ErrInterno == "Error al procesar la factura"

Error(status, mensaje) == Respuesta(status, mensaje, None, None, None)

-----------------------------------------------------------------------------
(* crear_factura, app.py:56-106 *)

\* lines 68, 71, 74: the three validations, each None when it passes
TipoInvalido(d) ==
    IF d.tipo \notin {Some("A"), Some("B")} THEN Some(Error(400, ErrTipo)) ELSE None

PuntoVentaInvalido(d) ==
    IF d.puntoVenta = None \/ d.puntoVenta[1] \notin Elems(puntos_venta)
    THEN Some(Error(400, ErrPuntoVenta)) ELSE None

ItemsInvalidos_soloNone(d) ==
    IF d.items = None THEN Some(Error(400, ErrItems)) ELSE None

ItemsInvalidos(d) ==
    IF d.items = None \/ Len(d.items[1]) = 0 THEN Some(Error(400, ErrItems)) ELSE None

Rechazo_puntoPrimero(data) ==
    IF data = None THEN Some(Error(500, ErrInterno))
    ELSE LET d == data[1]
         IN  IF PuntoVentaInvalido(d) # None THEN PuntoVentaInvalido(d)
             ELSE IF TipoInvalido(d) # None THEN TipoInvalido(d)
             ELSE IF ItemsInvalidos(d) # None THEN ItemsInvalidos(d)
             ELSE IF TotalesRaises(d.items[1]) THEN Some(Error(500, ErrInterno))
             ELSE None

\* lines 59-78: the response of a request that ends before anything is generated
\* (None when the request goes on to line 79)
Rechazo(data) ==
    IF data = None THEN Some(Error(500, ErrInterno))       \* data.get on None raises
    ELSE LET d == data[1]
         IN  IF TipoInvalido(d) # None THEN TipoInvalido(d)
             ELSE IF PuntoVentaInvalido(d) # None THEN PuntoVentaInvalido(d)
             ELSE IF ItemsInvalidos(d) # None THEN ItemsInvalidos(d)
             ELSE IF TotalesRaises(d.items[1]) THEN Some(Error(500, ErrInterno))
             ELSE None

SiguienteId_sinSumar(fs) == Len(fs)

\* line 82
SiguienteId(fs) == Len(fs) + 1

Incrementado_doble(numero) == numero + 2

Incrementado_sinSumar(numero) == numero

\* line 25
Incrementado(numero) == numero + 1

\* line 26
FormatoNumero(punto_venta, numero) ==
    zfill(Str(punto_venta), 5) \o <<"-">> \o zfill(Str(numero), 8)

\* line 88
Vencimiento(fecha) == fecha + DiasVencimientoCAE

\* lines 81-95
NuevaFactura(id, d, numero, cae, fecha, totales) ==
    [id |-> id,
     tipo |-> d.tipo[1],
     numero |-> FormatoNumero(d.puntoVenta[1], numero),
     puntoVenta |-> d.puntoVenta[1],
     cae |-> cae,
     fechaEmision |-> isoformat(fecha),
     fechaVencimientoCAE |-> isoformat(Vencimiento(fecha)),
     cliente |-> d.cliente,
     items |-> d.items[1],
     subtotal |-> totales.subtotal,
     iva |-> totales.iva,
     total |-> totales.total,
     estado |-> "Autorizada"]

\* lines 99-103
Creada(factura) == Respuesta(201, "Factura autorizada correctamente", Some(factura), None, None)

\* what the history keeps of a creation: the reported id, series and total, and the
\* issue time
Reportada(factura, fecha) ==
    [id |-> factura.id, tipo |-> factura.tipo, total |-> factura.total, emitida |-> fecha]

ContadoresTras_antesDeTotales(data) ==
    IF \/ data = None
       \/ TipoInvalido(data[1]) # None
       \/ PuntoVentaInvalido(data[1]) # None
       \/ ItemsInvalidos(data[1]) # None
    THEN contadores
    ELSE [contadores EXCEPT ![data[1].tipo[1]] = Incrementado(contadores[data[1].tipo[1]])]

\* lines 24-25 seen from the handler: generar_numero_factura runs, and moves the
\* counter of the series, only in a request that reached line 84
ContadoresTras(data) ==
    IF Rechazo(data) # None THEN contadores
    ELSE [contadores EXCEPT ![data[1].tipo[1]] = Incrementado(contadores[data[1].tipo[1]])]

\* the whole handler, run without interruption; caes: what generar_cae may return
crear_factura(data, caes) ==
    LET rechazo == Rechazo(data)
    IN  /\ \A w \in Workers : pc[w] = "idle"
        /\ req' = Peticion("crear", data, "", now)
        /\ contadores' = ContadoresTras(data)
        /\ IF rechazo # None
           THEN /\ resp' = rechazo[1]
                /\ UNCHANGED <<facturas, creadas>>
           ELSE LET d == data[1]
                    tipo == d.tipo[1]
                    totales == calcular_totales(d.items[1], tipo)
                    fecha == now
                    id == SiguienteId(facturas)
                    numero == contadores[tipo]
                IN  /\ Len(facturas) < MaxFacturas
                    /\ \E cae \in caes :
                           LET factura == NuevaFactura(id, d, numero, cae, fecha, totales)
                           IN  /\ facturas' = Append(facturas, factura)
                               /\ resp' = Creada(factura)
                               /\ creadas' = Append(creadas, Reportada(factura, fecha))
        /\ UNCHANGED <<now, pc, loc, interleaved>>

-----------------------------------------------------------------------------
(* verificar_cae, app.py:148-165 *)

\* line 151: the first invoice with the code, or None
PrimeraConCae(fs, cae) ==
    IF \E i \in 1..Len(fs) : fs[i].cae = cae
    THEN Some(fs[CHOOSE i \in 1..Len(fs) :
                    /\ fs[i].cae = cae
                    /\ \A j \in 1..(i - 1) : fs[j].cae # cae])
    ELSE None

Vencido_alLlegar(factura, t) == t >= fromisoformat(factura.fechaVencimientoCAE)

\* line 159
Vencido(factura, t) == t > fromisoformat(factura.fechaVencimientoCAE)

verificar_cae(cae) ==
    LET factura == PrimeraConCae(facturas, cae)
    IN  /\ req' = Peticion("verificar", None, cae, now)
        /\ resp' = IF factura = None
                   THEN Respuesta(200, "CAE no encontrado", None, Some(FALSE), None)
                   ELSE Respuesta(200,
                                  IF Vencido(factura[1], now) THEN "CAE vencido" ELSE "CAE valido",
                                  factura, Some(~Vencido(factura[1], now)), None)
        /\ UNCHANGED <<facturas, contadores, now, creadas, pc, loc, interleaved>>

-----------------------------------------------------------------------------
(* obtener_estadisticas, app.py:167-179 *)

CuentaTipo_todas(fs, tipo) == Len(fs)

\* lines 171-172
CuentaTipo(fs, tipo) == Cardinality({i \in 1..Len(fs) : fs[i].tipo = tipo})

\* line 170, in cents
TotalFacturado(fs) == SumSeq([i \in 1..Len(fs) |-> fs[i].total])

obtener_estadisticas ==
    /\ req' = Peticion("estadisticas", None, "", now)
    /\ resp' = Respuesta(200, "", None, None,
                         Some([totalFacturas |-> Len(facturas),
                               facturasA |-> CuentaTipo(facturas, "A"),
                               facturasB |-> CuentaTipo(facturas, "B"),
                               totalFacturado |-> Round2(TotalFacturado(facturas), 1)]))
    /\ UNCHANGED <<facturas, contadores, now, creadas, pc, loc, interleaved>>

-----------------------------------------------------------------------------
(* The clock *)

Tick(d) ==
    /\ now + d <= MaxNow
    /\ now' = now + d
    /\ UNCHANGED <<facturas, contadores, req, resp, creadas, pc, loc, interleaved>>

-----------------------------------------------------------------------------
(* Requests handled one at a time *)

LocIdle == [data |-> None, totales |-> None, fecha |-> 0, id |-> 0, numero |-> 0, tmp |-> 0]

Init ==
    /\ facturas = <<>>
    /\ contadores = [t \in {"A", "B"} |-> 1]
    /\ now = 0
    /\ req = SinPeticion
    /\ resp = SinRespuesta
    /\ creadas = <<>>
    /\ pc = [w \in Workers |-> "idle"]
    /\ loc = [w \in Workers |-> LocIdle]
    /\ interleaved = FALSE

Next ==
    \/ \E data \in RequestData : crear_factura(data, UnCae)
    \/ obtener_estadisticas

Spec == Init /\ [][Next]_vars

-----------------------------------------------------------------------------
(* Requests handled one at a time, over the item lists *)

NextTotales ==
    \/ \E data \in DatosTotales : crear_factura(data, UnCae)
    \/ obtener_estadisticas

SpecTotales == Init /\ [][NextTotales]_vars

-----------------------------------------------------------------------------
(* Requests handled one at a time, with the clock and code verification *)

NextCae ==
    \/ \E data \in DatosSimples : crear_factura(data, CaeValues)
    \/ \E cae \in CaeQueries : verificar_cae(cae)
    \/ \E d \in TickSteps : Tick(d)

SpecCae == Init /\ [][NextCae]_vars

-----------------------------------------------------------------------------
(* Two creation requests in flight: crear_factura interleaved line by line *)

Otro(w) == CHOOSE v \in Workers : v # w

Solapado(w) == interleaved \/ pc[Otro(w)] # "idle"

EnCurso == Cardinality({w \in Workers : pc[w] # "idle"})

TipoDe(w) == loc[w].data[1].tipo[1]

\* lines 59-79: parse, validate, compute the totals, read the clock
Recibir(w, data) ==
    /\ pc[w] = "idle"
    /\ req' = Peticion("crear", data, "", now)
    /\ IF Rechazo(data) # None
       THEN /\ resp' = Rechazo(data)[1]
            /\ UNCHANGED <<pc, loc>>
       ELSE /\ Len(facturas) + EnCurso < MaxFacturas
            /\ loc' = [loc EXCEPT ![w] = [LocIdle EXCEPT
                          !.data = data,
                          !.totales = Some(calcular_totales(data[1].items[1], data[1].tipo[1])),
                          !.fecha = now]]
            /\ pc' = [pc EXCEPT ![w] = "id"]
            /\ UNCHANGED resp
    /\ interleaved' = Solapado(w)
    /\ UNCHANGED <<facturas, contadores, now, creadas>>

\* line 82: 'id': len(facturas) + 1
LeerId(w) ==
    /\ pc[w] = "id"
    /\ loc' = [loc EXCEPT ![w].id = SiguienteId(facturas)]
    /\ pc' = [pc EXCEPT ![w] = "numero"]
    /\ interleaved' = Solapado(w)
    /\ UNCHANGED <<facturas, contadores, now, req, resp, creadas>>

\* line 24: numero = contadores[tipo]
LeerNumero(w) ==
    /\ pc[w] = "numero"
    /\ loc' = [loc EXCEPT ![w].numero = contadores[TipoDe(w)]]
    /\ pc' = [pc EXCEPT ![w] = "cargar"]
    /\ interleaved' = Solapado(w)
    /\ UNCHANGED <<facturas, contadores, now, req, resp, creadas>>

\* line 25, the load of contadores[tipo] += 1
CargarContador(w) ==
    /\ pc[w] = "cargar"
    /\ loc' = [loc EXCEPT ![w].tmp = contadores[TipoDe(w)]]
    /\ pc' = [pc EXCEPT ![w] = "guardar"]
    /\ interleaved' = Solapado(w)
    /\ UNCHANGED <<facturas, contadores, now, req, resp, creadas>>

\* line 25, the store of contadores[tipo] += 1
GuardarContador(w) ==
    /\ pc[w] = "guardar"
    /\ contadores' = [contadores EXCEPT ![TipoDe(w)] = Incrementado(loc[w].tmp)]
    /\ pc' = [pc EXCEPT ![w] = "agregar"]
    /\ interleaved' = Solapado(w)
    /\ UNCHANGED <<facturas, now, req, resp, creadas, loc>>

\* lines 26 and 86-103: format the number, draw the code, append, answer
Agregar(w, cae) ==
    /\ pc[w] = "agregar"
    /\ LET factura == NuevaFactura(loc[w].id, loc[w].data[1], loc[w].numero, cae,
                                   loc[w].fecha, loc[w].totales[1])
       IN  /\ facturas' = Append(facturas, factura)
           /\ resp' = Creada(factura)
           /\ creadas' = Append(creadas, Reportada(factura, loc[w].fecha))
    /\ pc' = [pc EXCEPT ![w] = "idle"]
    /\ loc' = [loc EXCEPT ![w] = LocIdle]
    /\ interleaved' = Solapado(w)
    /\ UNCHANGED <<contadores, now, req>>

NextConc ==
    \E w \in Workers :
        \/ \E data \in DatosSimples : Recibir(w, data)
        \/ LeerId(w)
        \/ LeerNumero(w)
        \/ CargarContador(w)
        \/ GuardarContador(w)
        \/ \E cae \in UnCae : Agregar(w, cae)

SpecConc == Init /\ [][NextConc]_vars

-----------------------------------------------------------------------------
(* Properties *)

Series == {"A", "B"}

DeSerie(fs, s) == SelectSeq(fs, LAMBDA f : f.tipo = s)

\* the NNNNNNNN part of a formatted number: what follows the first "-"
ParteSecuencia(numero) ==
    LET sep == CHOOSE i \in 1..Len(numero) :
                   numero[i] = "-" /\ \A j \in 1..(i - 1) : numero[j] # "-"
    IN  SubSeq(numero, sep + 1, Len(numero))

\* sequence numbers of a series are 1, 2, ..., k in ledger order
SecuenciaExacta(fs, s) ==
    \A j \in 1..Len(DeSerie(fs, s)) :
        /\ Len(ParteSecuencia(DeSerie(fs, s)[j].numero)) = 8
        /\ ParseNat(ParteSecuencia(DeSerie(fs, s)[j].numero)) = j

TipoValido(d) == d.tipo \in {Some("A"), Some("B")}

PuntoValido(d) == d.puntoVenta \in {Some(1), Some(2), Some(3), Some(4), Some(5)}

SinItems(d) == d.items \in {None, Some(<<>>)}

\* C1: the k-th successful creation is answered with id k and stored with id k, so the
\* ledger ids are 1..n in insertion order whatever requests were rejected in between
C1_IdsConsecutivos ==
    /\ Len(creadas) = Len(facturas)
    /\ \A k \in 1..Len(facturas) : facturas[k].id = k /\ creadas[k].id = k

\* C1 witness: two invoices were created and the request handled last was rejected
C1_Witness ==
    /\ Len(facturas) = 2
    /\ facturas[2].id = 2
    /\ req.op = "crear"
    /\ resp.status = 400

\* C2: a request failing one of the three validations is answered 400 and changes
\* neither the ledger nor the counters
C2_RechazoSinEfecto ==
    [][(/\ req'.op = "crear"
        /\ req'.data # None
        /\ (~TipoValido(req'.data[1]) \/ ~PuntoValido(req'.data[1]) \/ SinItems(req'.data[1])))
       => (/\ resp'.status = 400
           /\ resp'.mensaje \in {ErrTipo, ErrPuntoVenta, ErrItems}
           /\ facturas' = facturas
           /\ contadores' = contadores)]_vars

\* C2 witness: an empty item list was rejected with 400 while the ledger holds an invoice
C2_Witness ==
    /\ req.op = "crear"
    /\ req.data # None
    /\ TipoValido(req.data[1]) /\ PuntoValido(req.data[1])
    /\ req.data[1].items = Some(<<>>)
    /\ resp.status = 400
    /\ Len(facturas) = 1
    /\ contadores[facturas[1].tipo] = 2

\* C3: in each series the sequence numbers are 1..k in ledger order, whatever the points
\* of sale, and the counter of the series is k + 1
C3_SecuenciaPorSerie ==
    \A s \in Series :
        /\ SecuenciaExacta(facturas, s)
        /\ contadores[s] = Len(DeSerie(facturas, s)) + 1

\* C3 witness: two invoices of one series issued at different points of sale
C3_Witness ==
    /\ Len(facturas) = 2
    /\ facturas[1].tipo = facturas[2].tipo
    /\ facturas[1].puntoVenta # facturas[2].puntoVenta
    /\ ParseNat(ParteSecuencia(facturas[2].numero)) = 2

ItemsNoNegativos(items) ==
    \A i \in 1..Len(items) : items[i].cantidad[1] >= 0 /\ items[i].precioUnitario[1] >= 0

\* C4: every stored invoice built from non-negative quantities and prices has
\* total = subtotal + iva on its stored fields
C4_TotalEsSubtotalMasIva ==
    \A k \in 1..Len(facturas) :
        ItemsNoNegativos(facturas[k].items)
            => facturas[k].total = facturas[k].subtotal + facturas[k].iva

\* C5: every stored series-A invoice has total >= subtotal
C5_TotalNoMenorQueSubtotal ==
    \A k \in 1..Len(facturas) :
        facturas[k].tipo = "A" => facturas[k].total >= facturas[k].subtotal

\* C6: the first failing validation, in the order type, point of sale, items, decides
\* the error of a request
C6_PrimeraFallaGana ==
    (req.op = "crear" /\ req.data # None) =>
        LET d == req.data[1]
        IN  /\ ~TipoValido(d) => (resp.status = 400 /\ resp.mensaje = ErrTipo)
            /\ (TipoValido(d) /\ ~PuntoValido(d))
                   => (resp.status = 400 /\ resp.mensaje = ErrPuntoVenta)
            /\ (TipoValido(d) /\ PuntoValido(d) /\ SinItems(d))
                   => (resp.status = 400 /\ resp.mensaje = ErrItems)

\* C6 witness: a request failing all three validations got the invalid-type error
C6_Witness ==
    /\ req.op = "crear"
    /\ req.data # None
    /\ ~TipoValido(req.data[1]) /\ ~PuntoValido(req.data[1]) /\ SinItems(req.data[1])
    /\ resp.mensaje = ErrTipo

CreadasDeSerie(s) == Cardinality({k \in 1..Len(creadas) : creadas[k].tipo = s})

\* C7: the statistics report N + M invoices, N of series A and M of series B, and the
\* sum of the totals, N and M being the numbers of successful creations of each series
C7_Estadisticas ==
    (req.op = "estadisticas") =>
        /\ resp.stats # None
        /\ resp.stats[1].facturasA = CreadasDeSerie("A")
        /\ resp.stats[1].facturasB = CreadasDeSerie("B")
        /\ resp.stats[1].totalFacturas = CreadasDeSerie("A") + CreadasDeSerie("B")
        /\ resp.stats[1].totalFacturas = resp.stats[1].facturasA + resp.stats[1].facturasB
        /\ resp.stats[1].totalFacturado =
               SumSeq([k \in 1..Len(creadas) |-> creadas[k].total])

\* C7 witness: statistics over one invoice of each series with different totals
C7_Witness ==
    /\ req.op = "estadisticas"
    /\ resp.stats # None
    /\ resp.stats[1].facturasA = 1
    /\ resp.stats[1].facturasB = 1
    /\ facturas[1].total # facturas[2].total

\* the ledger positions holding a code, and the first of them
ConCodigo(c) == {k \in 1..Len(facturas) : facturas[k].cae = c}

PrimeraPosicion(c) == CHOOSE k \in ConCodigo(c) : \A j \in ConCodigo(c) : k <= j

\* C8: verifying code c at time t answers valid exactly when an invoice has the code and
\* t is not later than issue time + 10 days of the first such invoice, which is echoed;
\* an unknown code answers not valid and echoes nothing
C8_ValidoHastaVencer ==
    (req.op = "verificar") =>
        IF ConCodigo(req.cae) = {}
        THEN resp.valido = Some(FALSE) /\ resp.factura = None
        ELSE /\ resp.factura = Some(facturas[PrimeraPosicion(req.cae)])
             /\ resp.valido = Some(req.t <= creadas[PrimeraPosicion(req.cae)].emitida + 10)

\* C8 witness: two invoices share a code, the first has expired, the second has not,
\* and the code is reported not valid
C8_Witness ==
    /\ req.op = "verificar"
    /\ Len(facturas) = 2
    /\ facturas[1].cae = req.cae /\ facturas[2].cae = req.cae
    /\ req.t > creadas[1].emitida + 10
    /\ req.t <= creadas[2].emitida + 10
    /\ resp.valido = Some(FALSE)

FalloInterno(data) ==
    \/ data = None
    \/ /\ TipoValido(data[1]) /\ PuntoValido(data[1]) /\ ~SinItems(data[1])
       /\ \E i \in 1..Len(data[1].items[1]) :
              data[1].items[1][i].cantidad = None \/ data[1].items[1][i].precioUnitario = None

\* C9: a request that faults is answered 500 and changes neither the ledger nor the
\* counters, and a counter is never ahead of the invoices stored for its series
C9_TodoONada ==
    /\ [](\A s \in Series : contadores[s] = 1 + Len(DeSerie(facturas, s)))
    /\ [][(req'.op = "crear" /\ FalloInterno(req'.data))
          => (/\ resp'.status = 500
              /\ facturas' = facturas
              /\ contadores' = contadores)]_vars

\* C9 witness: an item without a unit price was answered 500 after an invoice was stored
C9_Witness ==
    /\ req.op = "crear"
    /\ req.data # None
    /\ FalloInterno(req.data)
    /\ resp.status = 500
    /\ Len(facturas) = 1

IdsDistintos == \A i, j \in 1..Len(facturas) : facturas[i].id = facturas[j].id => i = j

\* C10: as long as no creation overlapped another, ids are distinct and no sequence
\* number of a series is duplicated or skipped
C10_SeguroSinSolape ==
    ~interleaved => (IdsDistintos /\ \A s \in Series : SecuenciaExacta(facturas, s))

\* C10 witness: two overlapping creations stored the same id and the same number
C10_Witness ==
    /\ interleaved
    /\ Len(facturas) = 2
    /\ facturas[1].id = facturas[2].id
    /\ facturas[1].tipo = facturas[2].tipo
    /\ facturas[1].numero = facturas[2].numero

====
